---- MODULE Spec2Model ----
(***************************************************************************)
(* Model of data_build/functions.py: the typed CSV readers, the monthly    *)
(* loaders and the MA / MA-PD premium merger.                              *)
(*                                                                         *)
(* A table (pandas DataFrame) is a sequence of rows; a row is a record of  *)
(* cells.  A cell is <<>> when the value is absent (NaN / <NA>) and <<v>>  *)
(* when it holds v.  Text that the code inspects character by character    *)
(* (numeric text, month strings) is a sequence of one-character strings.   *)
(* A number is [num |-> n, scale |-> k], the decimal n / 10^k in lowest    *)
(* form, so that "1234", "1234.0" and "01234" are one value.               *)
(***************************************************************************)
EXTENDS Integers, Sequences, FiniteSets, TLC

VARIABLES
    fs,             \* the file system: path -> raw rows of the file at that path
    result,         \* outcome of the last loader call (NoCall before any call)
    ma_data,        \* MA-only landscape table handed to mapd_clean_merge
    mapd_data,      \* MA-PD landscape table handed to mapd_clean_merge
    plan_premiums   \* outcome of the last mapd_clean_merge call

vars == <<fs, result, ma_data, mapd_data, plan_premiums>>

(***************************************************************************)
(* Bounds of the model.                                                    *)
(***************************************************************************)
MaxContractRows == 2
MaxEnrollRows == 2
MaxSaRows == 2
MaxPenRows == 2
MaxMaRows == 2
MaxMapdRows == 2

(***************************************************************************)
(* Cells and numbers.                                                      *)
(***************************************************************************)
NaN == <<>>
Some(v) == <<v>>
isna(c) == c = NaN
notna(c) == c # NaN

RECURSIVE Pow10(_)
Pow10(k) == IF k = 0 THEN 1 ELSE 10 * Pow10(k - 1)

RECURSIVE Normalize(_)
Normalize(x) ==
    IF x.num = 0 THEN [num |-> 0, scale |-> 0]
    ELSE IF x.scale > 0 /\ x.num % 10 = 0
         THEN Normalize([num |-> x.num \div 10, scale |-> x.scale - 1])
         ELSE x

Num(n) == [num |-> n, scale |-> 0]

\* a < b on numbers
NumLess(a, b) == a.num * Pow10(b.scale) < b.num * Pow10(a.scale)

(***************************************************************************)
(* Text to number: the float parse shared by read_csv (dtype float),       *)
(* pd.to_numeric and int().                                                *)
(***************************************************************************)
Digits == {"0", "1", "2", "3", "4", "5", "6", "7", "8", "9"}

DigitVal(ch) ==
    CASE ch = "0" -> 0 [] ch = "1" -> 1 [] ch = "2" -> 2 [] ch = "3" -> 3
      [] ch = "4" -> 4 [] ch = "5" -> 5 [] ch = "6" -> 6 [] ch = "7" -> 7
      [] ch = "8" -> 8 [] ch = "9" -> 9

\* the text without its leading sign
Unsigned(t) == IF t # <<>> /\ t[1] \in {"-", "+"} THEN Tail(t) ELSE t

\* [sign] digits [ "." digits ]  with at least one digit
IsNumeral(t) ==
    LET b == Unsigned(t)
    IN  /\ \A i \in 1..Len(b) : b[i] \in Digits \cup {"."}
        /\ Cardinality({i \in 1..Len(b) : b[i] = "."}) <= 1
        /\ \E i \in 1..Len(b) : b[i] \in Digits

NumeralValue(t) ==
    LET b == Unsigned(t)
        F[i \in 0..Len(b)] ==
            IF i = 0 THEN [num |-> 0, scale |-> 0, frac |-> FALSE]
            ELSE IF b[i] = "." THEN [F[i - 1] EXCEPT !.frac = TRUE]
            ELSE [num   |-> F[i - 1].num * 10 + DigitVal(b[i]),
                  scale |-> F[i - 1].scale + (IF F[i - 1].frac THEN 1 ELSE 0),
                  frac  |-> F[i - 1].frac]
        m == F[Len(b)]
        sgn == IF t # <<>> /\ t[1] = "-" THEN -1 ELSE 1
    IN  Normalize([num |-> sgn * m.num, scale |-> m.scale])

\* Python int(m) on a string of decimal digits
int(m) ==
    LET F[i \in 0..Len(m)] ==
            IF i = 0 THEN 0 ELSE F[i - 1] * 10 + DigitVal(m[i])
    IN  F[Len(m)]

(***************************************************************************)
(* Table operations (pandas).                                              *)
(***************************************************************************)
\* the set of the elements of a sequence
Range(s) == { s[i] : i \in 1..Len(s) }

\* the cells of `row` in the columns `subset`
KeyOf(row, subset) == [c \in subset |-> row[c]]

\* DataFrame.duplicated(subset, keep="first") at position i; absent cells
\* compare equal to each other
Duplicated(df, subset, i) ==
    \E j \in 1..(i - 1) : KeyOf(df[j], subset) = KeyOf(df[i], subset)

\* mutant: keep="last"
DropDuplicatesKeepLast(df, subset) ==
    LET F[i \in 0..Len(df)] ==
            IF i = 0 THEN <<>>
            ELSE IF \E j \in (i + 1)..Len(df) :
                        KeyOf(df[j], subset) = KeyOf(df[i], subset)
                 THEN F[i - 1]
                 ELSE Append(F[i - 1], df[i])
    IN  F[Len(df)]

\* DataFrame.drop_duplicates(subset=..., keep="first")
drop_duplicates(df, subset) ==
    LET F[i \in 0..Len(df)] ==
            IF i = 0 THEN <<>>
            ELSE IF Duplicated(df, subset, i) THEN F[i - 1]
                 ELSE Append(F[i - 1], df[i])
    IN  F[Len(df)]

\* the rows of `right` whose key equals that of lrow, in right's order
Matches(lrow, right, on) ==
    SelectSeq(right, LAMBDA r : KeyOf(r, on) = KeyOf(lrow, on))

\* the non-key columns of the right table, all absent
AbsentRight(rightCols, on) == [c \in rightCols \ on |-> NaN]

\* one joined row: the left row plus the right row's non-key columns
Joined(lrow, rrow, rightCols, on) ==
    lrow @@ [c \in rightCols \ on |-> rrow[c]]

\* the joined rows a left row contributes to a left join
LeftRows(lrow, right, rightCols, on) ==
    LET ms == Matches(lrow, right, on)
    IN  IF ms = <<>> THEN << lrow @@ AbsentRight(rightCols, on) >>
        ELSE [k \in 1..Len(ms) |-> Joined(lrow, ms[k], rightCols, on)]

\* mutant: how="inner"
MergeInner(left, right, rightCols, on) ==
    LET F[i \in 0..Len(left)] ==
            IF i = 0 THEN <<>>
            ELSE LET ms == Matches(left[i], right, on)
                 IN  F[i - 1] \o
                     [k \in 1..Len(ms) |-> Joined(left[i], ms[k], rightCols, on)]
    IN  F[Len(left)]

\* left.merge(right, on=..., how="left"): left order kept, one output row per
\* matching right row, or one with absent right columns when none matches
merge_left(left, right, rightCols, on) ==
    LET F[i \in 0..Len(left)] ==
            IF i = 0 THEN <<>>
            ELSE F[i - 1] \o LeftRows(left[i], right, rightCols, on)
    IN  F[Len(left)]

\* mutant: the month column is not set from the argument
StampFixed(df, m, y) ==
    [i \in 1..Len(df) |-> df[i] @@ [month |-> 1, year |-> y]]

\* df["month"] = int(m); df["year"] = y
Stamp(df, m, y) ==
    [i \in 1..Len(df) |-> df[i] @@ [month |-> int(m), year |-> y]]

(***************************************************************************)
(* Paths and call outcomes.                                                *)
(***************************************************************************)
Periods == { << <<"0", "1">>, 2015 >>, << <<"1", "2">>, 2016 >> }

EnrollmentDir == "/home/gdanzil/econ470/a0/work/ma-data/ma/enrollment/Extracted Data"
ServiceAreaDir == "../../ma-data/ma/service-area/Extracted Data"
PenetrationDir == "../../ma-data/ma/penetration/Extracted Data"

\* f"{dir}/{stem}_{y}_{m}.csv"
Path(dir, stem, y, m) == [dir |-> dir, stem |-> stem, y |-> y, m |-> m]

ContractPath(m, y) == Path(EnrollmentDir, "CPSC_Contract_Info", y, m)
EnrollPath(m, y) == Path(EnrollmentDir, "CPSC_Enrollment_Info", y, m)
ServiceAreaPath(m, y) == Path(ServiceAreaDir, "MA_Cnty_SA", y, m)
PenetrationPath(m, y) == Path(PenetrationDir, "State_County_Penetration_MA", y, m)

exists(path) == path \in DOMAIN fs

NoCall == [op |-> "none"]

\* the call returned `rows`; `reads` are the paths handed to pd.read_csv, in order
Returned(op, m, y, reads, rows) ==
    [op |-> op, m |-> m, y |-> y, status |-> "ok", reads |-> reads, rows |-> rows]

\* the call ended in an exception; `by` is the function whose code raised it and
\* `reads` the paths handed to pd.read_csv before it was raised
Raised(op, m, y, reads, by, msg, path) ==
    [op |-> op, m |-> m, y |-> y, status |-> "error", reads |-> reads,
     error |-> [type |-> "FileNotFoundError", by |-> by, msg |-> msg, path |-> path]]

(***************************************************************************)
(* read_contract, read_enroll, load_month.                                 *)
(***************************************************************************)
KeyCols == {"contractid", "planid"}
EnrollCols == {"contractid", "planid", "county", "enrollment"}

\* the strings pd.read_csv takes as absent by default (keep_default_na)
STR_NA_VALUES ==
    { <<>>,
      <<"#", "N", "/", "A">>,
      <<"#", "N", "/", "A", " ", "N", "/", "A">>,
      <<"#", "N", "A">>,
      <<"-", "1", ".", "#", "I", "N", "D">>,
      <<"-", "1", ".", "#", "Q", "N", "A", "N">>,
      <<"-", "N", "a", "N">>,
      <<"-", "n", "a", "n">>,
      <<"1", ".", "#", "I", "N", "D">>,
      <<"1", ".", "#", "Q", "N", "A", "N">>,
      <<"<", "N", "A", ">">>,
      <<"N", "/", "A">>,
      <<"N", "A">>,
      <<"N", "U", "L", "L">>,
      <<"N", "a", "N">>,
      <<"N", "o", "n", "e">>,
      <<"n", "/", "a">>,
      <<"n", "a", "n">>,
      <<"n", "u", "l", "l">> }

\* a str column of read_csv: the default NA strings and the na_values are
\* absent, any other text is kept as it is
ReadStr(text, na_values) ==
    IF text \in STR_NA_VALUES \cup na_values THEN NaN ELSE Some(text)

\* a float column of read_csv: the default NA strings and the na_values are
\* absent, a numeral is its value (the files modelled hold numerals only)
ReadFloat(text, na_values) ==
    IF text \in STR_NA_VALUES \cup na_values THEN NaN
    ELSE Some(NumeralValue(text))

\* read_contract: contractid and the name columns stay text, planid is float
read_contract(raw) ==
    [i \in 1..Len(raw) |->
        [contractid |-> Some(raw[i].contractid),
         planid     |-> ReadFloat(raw[i].planid, {}),
         plan_name  |-> Some(raw[i].plan_name)]]

\* read_enroll: na_values="*"; planid and enrollment are float
read_enroll(raw) ==
    [i \in 1..Len(raw) |->
        [contractid |-> Some(raw[i].contractid),
         planid     |-> ReadFloat(raw[i].planid, { <<"*">> }),
         county     |-> Some(raw[i].county),
         enrollment |-> ReadFloat(raw[i].enrollment, { <<"*">> })]]

\* mutant: the files are read before their existence is checked
LoadMonthReadFirst(m, y) ==
    LET c_path == ContractPath(m, y)
        e_path == EnrollPath(m, y)
    IN  IF ~exists(c_path)
        THEN Raised("load_month", m, y, <<c_path>>, "read_csv",
                    "No such file or directory", c_path)
        ELSE IF ~exists(e_path)
        THEN Raised("load_month", m, y, <<c_path, e_path>>, "read_csv",
                    "No such file or directory", e_path)
        ELSE Returned("load_month", m, y, <<c_path, e_path>>,
                 Stamp(merge_left(
                           drop_duplicates(read_contract(fs[c_path]), KeyCols),
                           read_enroll(fs[e_path]), EnrollCols, KeyCols), m, y))

\* the outcome of load_month(m, y) on the current file system
LoadMonthOutcome(m, y) ==
    LET c_path == ContractPath(m, y)
        e_path == EnrollPath(m, y)
    IN  IF ~exists(c_path)
        THEN Raised("load_month", m, y, <<>>, "load_month",
                    "Missing contract file", c_path)
        ELSE IF ~exists(e_path)
        THEN Raised("load_month", m, y, <<>>, "load_month",
                    "Missing enrollment file", e_path)
        ELSE LET contract_info ==
                     drop_duplicates(read_contract(fs[c_path]), KeyCols)
                 enroll_info == read_enroll(fs[e_path])
                 merged == merge_left(contract_info, enroll_info,
                                      EnrollCols, KeyCols)
             IN  Returned("load_month", m, y, <<c_path, e_path>>,
                          Stamp(merged, m, y))

load_month(m, y) ==
    /\ result' = LoadMonthOutcome(m, y)
    /\ UNCHANGED <<fs, ma_data, mapd_data, plan_premiums>>

(***************************************************************************)
(* Specification of the plan/enrollment loader: the contract and           *)
(* enrollment files of one period are on disk or not, with any contents    *)
(* within the bounds; load_month is called for any period, any number of   *)
(* times.                                                                  *)
(***************************************************************************)
\* all sequences over S of length at most n
SeqUpTo(S, n) == UNION { [1..k -> S] : k \in 0..n }

ContractFileRows ==
    [contractid : {"H1234", "H5678"},
     planid     : { <<"1">>, <<>> },
     plan_name  : {"Gold", "Silver"}]

EnrollFileRows ==
    [contractid : {"H1234"},
     planid     : { <<"1">>, <<>> },
     county     : {"Autauga"},
     enrollment : { <<"1", "0", "0">>, <<"*">> }]

\* the file systems holding `files` (path -> set of possible contents), each
\* file present or not
FileSystems(files) ==
    UNION { { f \in [present -> UNION { files[p] : p \in present }] :
                \A p \in present : f[p] \in files[p] } :
            present \in SUBSET (DOMAIN files) }

InitLoad ==
    /\ \E p \in Periods :
         fs \in FileSystems(
                  (ContractPath(p[1], p[2]) :>
                       SeqUpTo(ContractFileRows, MaxContractRows)) @@
                  (EnrollPath(p[1], p[2]) :>
                       SeqUpTo(EnrollFileRows, MaxEnrollRows)))
    /\ result = NoCall
    /\ ma_data = <<>>
    /\ mapd_data = <<>>
    /\ plan_premiums = NoCall

NextLoad == \E p \in Periods : load_month(p[1], p[2])

SpecLoad == InitLoad /\ [][NextLoad]_vars

(***************************************************************************)
(* read_service_area, load_month_sa.                                       *)
(***************************************************************************)
\* mutant: the literals are matched without regard to case
MapPartialAnyCase(cell) ==
    IF cell \in {Some(<<"T", "R", "U", "E">>), Some(<<"t", "r", "u", "e">>)}
    THEN Some(TRUE)
    ELSE IF cell \in {Some(<<"F", "A", "L", "S", "E">>), Some(<<"f", "a", "l", "s", "e">>)}
    THEN Some(FALSE)
    ELSE NaN

\* Series.map({"TRUE": True, "FALSE": False, True: True, False: False}) on one
\* cell: a value that is no key of the dict, absent included, maps to absent.
\* The column is read with dtype str, so its cells are text or absent and the
\* keys True and False match none of them.
MapPartial(cell) ==
    IF cell = Some(<<"T", "R", "U", "E">>) THEN Some(TRUE)
    ELSE IF cell = Some(<<"F", "A", "L", "S", "E">>) THEN Some(FALSE)
    ELSE NaN

\* read_service_area: na_values="*", partial read as str and then mapped
read_service_area(raw) ==
    [i \in 1..Len(raw) |->
        [contractid |-> Some(raw[i].contractid),
         partial    |-> MapPartial(ReadStr(raw[i].partial, { <<"*">> })),
         county     |-> Some(raw[i].county)]]

\* the outcome of a loader that hands `path` to its reader without checking
\* it: pd.read_csv is called and fails to open a file that is not there
ReadOutcome(op, m, y, path, rows) ==
    IF ~exists(path)
    THEN Raised(op, m, y, <<path>>, "pd.read_csv",
                "No such file or directory", path)
    ELSE Returned(op, m, y, <<path>>, Stamp(rows, m, y))

LoadMonthSaOutcome(m, y) ==
    LET path == ServiceAreaPath(m, y)
    IN  ReadOutcome("load_month_sa", m, y, path,
                    IF exists(path) THEN read_service_area(fs[path]) ELSE <<>>)

load_month_sa(m, y) ==
    /\ result' = LoadMonthSaOutcome(m, y)
    /\ UNCHANGED <<fs, ma_data, mapd_data, plan_premiums>>

(***************************************************************************)
(* read_penetration, load_month_pen.                                       *)
(***************************************************************************)
PenNaValues == { <<>>, <<"N", "A">>, <<"*">>, <<"-">>, <<"-", "-">> }

\* Series.astype(str) on one cell: an absent cell becomes the text "nan"
astype_str(cell) == IF isna(cell) THEN <<"n", "a", "n">> ELSE cell[1]

\* str.replace(old, "", regex=False) with a one-character `old`
RECURSIVE str_replace(_, _)
str_replace(t, old) ==
    IF t = <<>> THEN <<>>
    ELSE IF Head(t) = old THEN str_replace(Tail(t), old)
         ELSE <<Head(t)>> \o str_replace(Tail(t), old)

\* pd.to_numeric(..., errors="coerce") on one text: a numeral is its value,
\* anything else (the empty text and "nan" included) is absent
to_numeric(t) == IF IsNumeral(t) THEN Some(NumeralValue(t)) ELSE NaN

\* mutant: only the thousands separator is removed
ParseNumericTextCommaOnly(cell) ==
    to_numeric(str_replace(astype_str(cell), ","))

\* the loop body of read_penetration on one cell of a str column
ParseNumericText(cell) ==
    to_numeric(str_replace(str_replace(astype_str(cell), ","), "%"))

NumericTextCols == {"eligibles", "enrolled", "penetration"}

read_penetration(raw) ==
    [i \in 1..Len(raw) |->
        [state |-> Some(raw[i].state)] @@
        [c \in NumericTextCols |->
            ParseNumericText(ReadStr(raw[i][c], PenNaValues))]]

LoadMonthPenOutcome(m, y) ==
    LET path == PenetrationPath(m, y)
    IN  ReadOutcome("load_month_pen", m, y, path,
                    IF exists(path) THEN read_penetration(fs[path]) ELSE <<>>)

load_month_pen(m, y) ==
    /\ result' = LoadMonthPenOutcome(m, y)
    /\ UNCHANGED <<fs, ma_data, mapd_data, plan_premiums>>

(***************************************************************************)
(* Specifications of the service-area and penetration loaders.             *)
(***************************************************************************)
PartialTexts ==
    { <<"T", "R", "U", "E">>, <<"F", "A", "L", "S", "E">>, <<"t", "r", "u", "e">>,
      <<"T", "r", "u", "e">>, <<"Y", "e", "s">>, <<"*">>, <<>> }

SaFileRows ==
    [contractid : {"H1234"}, partial : PartialTexts, county : {"Autauga"}]

InitSa ==
    /\ \E p \in Periods :
         fs \in FileSystems(ServiceAreaPath(p[1], p[2]) :>
                                SeqUpTo(SaFileRows, MaxSaRows))
    /\ result = NoCall
    /\ ma_data = <<>>
    /\ mapd_data = <<>>
    /\ plan_premiums = NoCall

NextSa == \E p \in Periods : load_month_sa(p[1], p[2])

SpecSa == InitSa /\ [][NextSa]_vars

PenTexts ==
    << <<"1", ",", "2", "3", "4", "%">>,
       <<"1", "2", "3", "4">>,
       <<"n", "/", "a">>,
       <<>>,
       <<"N", "A">>,
       <<"*">>,
       <<"-">>,
       <<"-", "-">>,
       <<"1", "2", ".", "5", "%">>,
       <<"-", "5">>,
       <<"%">>,
       <<"1", ".", "2", ".", "3">>,
       <<"1", ",", "2", "3", "4", ".", "5", "0">>,
       <<"n", "a", "n">> >>

\* every text occurs in every numeric text column
PenFileRows ==
    { [state       |-> "AL",
       eligibles   |-> PenTexts[k],
       enrolled    |-> PenTexts[(k % Len(PenTexts)) + 1],
       penetration |-> PenTexts[((k + 1) % Len(PenTexts)) + 1]] :
      k \in 1..Len(PenTexts) }

InitPen ==
    /\ \E p \in Periods :
         fs \in FileSystems(PenetrationPath(p[1], p[2]) :>
                                SeqUpTo(PenFileRows, MaxPenRows))
    /\ result = NoCall
    /\ ma_data = <<>>
    /\ mapd_data = <<>>
    /\ plan_premiums = NoCall

NextPen == \E p \in Periods : load_month_pen(p[1], p[2])

SpecPen == InitPen /\ [][NextPen]_vars

(***************************************************************************)
(* Specification of the three loaders side by side: each of the four       *)
(* files of one period is on disk, with one of a few contents, or is not.  *)
(***************************************************************************)
InitLoaders ==
    /\ \E p \in Periods :
         fs \in FileSystems(
                  (ContractPath(p[1], p[2]) :> SeqUpTo(ContractFileRows, 1)) @@
                  (EnrollPath(p[1], p[2]) :> SeqUpTo(EnrollFileRows, 1)) @@
                  (ServiceAreaPath(p[1], p[2]) :>
                       { <<r>> : r \in { x \in SaFileRows :
                                           x.partial = <<"T", "R", "U", "E">> } }) @@
                  (PenetrationPath(p[1], p[2]) :>
                       { <<r>> : r \in { x \in PenFileRows :
                                           x.eligibles = PenTexts[1] } }))
    /\ result = NoCall
    /\ ma_data = <<>>
    /\ mapd_data = <<>>
    /\ plan_premiums = NoCall

NextLoaders ==
    \E p \in Periods :
        \/ load_month(p[1], p[2])
        \/ load_month_sa(p[1], p[2])
        \/ load_month_pen(p[1], p[2])

SpecLoaders == InitLoaders /\ [][NextLoaders]_vars

(***************************************************************************)
(* mapd_clean_merge.                                                       *)
(***************************************************************************)
MergeKey == <<"contractid", "planid", "state", "county">>
MergeKeyCols == Range(MergeKey)
fill_cols ==
    {"premium_partc", "premium_partd_basic", "premium_partd_supp",
     "premium_partd_total", "partd_deductible"}

\* the texts of the model in Python's string order
SortedTexts == <<"AL", "Autauga", "H1234", "H5678">>
TextLess(a, b) ==
    \E i, j \in 1..Len(SortedTexts) :
        SortedTexts[i] = a /\ SortedTexts[j] = b /\ i < j

\* order of two cells of column col in sort_values: absent cells last
CellLess(col, a, b) ==
    IF isna(a) THEN FALSE
    ELSE IF isna(b) THEN TRUE
    ELSE IF col = "planid" THEN NumLess(a[1], b[1])
    ELSE TextLess(a[1], b[1])

\* row a sorts strictly before row b on the columns by[n..]
RECURSIVE RowLessFrom(_, _, _, _)
RowLessFrom(by, n, a, b) ==
    IF n > Len(by) THEN FALSE
    ELSE IF CellLess(by[n], a[by[n]], b[by[n]]) THEN TRUE
    ELSE IF CellLess(by[n], b[by[n]], a[by[n]]) THEN FALSE
    ELSE RowLessFrom(by, n + 1, a, b)

RowLess(by, a, b) == RowLessFrom(by, 1, a, b)

\* `row` put into the sorted sequence after every row that does not sort
\* after it
InsertSorted(sorted, row, by) ==
    LET k == Cardinality({ i \in 1..Len(sorted) : ~RowLess(by, row, sorted[i]) })
    IN  SubSeq(sorted, 1, k) \o <<row>> \o SubSeq(sorted, k + 1, Len(sorted))

\* DataFrame.sort_values(by): on several columns the sort is stable
sort_values(df, by) ==
    LET F[i \in 0..Len(df)] ==
            IF i = 0 THEN <<>> ELSE InsertSorted(F[i - 1], df[i], by)
    IN  F[Len(df)]

\* a key with an absent component: groupby (dropna=True) puts the row in no group
HasNaKey(row, keys) == \E c \in keys : isna(row[c])

\* the cell of column col that a forward fill gives row i within its group:
\* its own value, or that of the nearest earlier row of the group that has one
FfillCell(df, keys, col, i) ==
    LET prior == { j \in 1..i : /\ KeyOf(df[j], keys) = KeyOf(df[i], keys)
                                /\ notna(df[j][col]) }
    IN  IF prior = {} THEN NaN
        ELSE df[CHOOSE j \in prior : \A h \in prior : h <= j][col]

\* mutant: the rows with an absent key form a group of their own (dropna=False)
GroupbyFfillKeepNaKeys(df, keys, cols) ==
    [i \in 1..Len(df) |->
        [c \in DOMAIN df[i] |->
            IF c \in cols THEN FfillCell(df, keys, c, i) ELSE df[i][c]]]

\* df[cols] = df.groupby(keys)[cols].ffill(): the rows of no group get absent
\* values
groupby_ffill(df, keys, cols) ==
    [i \in 1..Len(df) |->
        [c \in DOMAIN df[i] |->
            IF c \notin cols THEN df[i][c]
            ELSE IF HasNaKey(df[i], keys) THEN NaN
            ELSE FfillCell(df, keys, c, i)]]

\* df[cols].copy()
Project(df, cols) == [i \in 1..Len(df) |-> KeyOf(df[i], cols)]

\* pd.to_numeric(..., errors="coerce") on one cell of an object column: a
\* number is kept, a numeral is its value, any other text is absent
ToNumericCell(cell) ==
    IF isna(cell) THEN NaN
    ELSE IF "text" \in DOMAIN cell[1] THEN to_numeric(cell[1].text)
    ELSE cell

\* sort, forward-fill within the key groups, keep the first row of each key
Tidy(df, cols) ==
    drop_duplicates(groupby_ffill(sort_values(df, MergeKey), MergeKeyCols, cols),
                    MergeKeyCols)

\* the rows an outer join gives one key: every pair of a left and a right row
\* with the key, or the rows of one side with the other side's columns absent
OuterRows(key, left, right, leftCols, rightCols, on) ==
    LET ls == SelectSeq(left, LAMBDA r : KeyOf(r, on) = key)
        rs == SelectSeq(right, LAMBDA r : KeyOf(r, on) = key)
    IN  IF rs = <<>>
        THEN [k \in 1..Len(ls) |-> ls[k] @@ AbsentRight(rightCols, on)]
        ELSE IF ls = <<>>
        THEN [k \in 1..Len(rs) |-> rs[k] @@ AbsentRight(leftCols, on)]
        ELSE [k \in 1..(Len(ls) * Len(rs)) |->
                Joined(ls[((k - 1) \div Len(rs)) + 1],
                       rs[((k - 1) % Len(rs)) + 1], rightCols, on)]

\* mutant: how="left"
MergeOuterAsLeft(left, right, leftCols, rightCols, by) ==
    merge_left(left, right, rightCols, Range(by))

\* left.merge(right, on=by, how="outer"): the union of the keys of both
\* tables, sorted
merge_outer(left, right, leftCols, rightCols, by) ==
    LET on == Range(by)
        keys == sort_values(
                    drop_duplicates(Project(left, on) \o Project(right, on), on), by)
        F[i \in 0..Len(keys)] ==
            IF i = 0 THEN <<>>
            ELSE F[i - 1] \o OuterRows(keys[i], left, right, leftCols, rightCols, on)
    IN  F[Len(keys)]

MaCols == MergeKeyCols \cup {"premium"}
MapdCols == MergeKeyCols \cup fill_cols

\* the MA-PD table with its planid made numeric
CoercePlanid(df) ==
    [i \in 1..Len(df) |-> [df[i] EXCEPT !.planid = ToNumericCell(@)]]

MapdCleanMergeOutcome(ma, mapd, y) ==
    LET ma_tidy == Tidy(Project(ma, MaCols), {"premium"})
        mapd_tidy == Tidy(CoercePlanid(Project(mapd, MapdCols)), fill_cols)
        merged == merge_outer(ma_tidy, mapd_tidy, MaCols, MapdCols, MergeKey)
    IN  [op |-> "mapd_clean_merge", y |-> y,
         rows |-> [i \in 1..Len(merged) |-> merged[i] @@ [year |-> y]]]

mapd_clean_merge(y) ==
    /\ plan_premiums' = MapdCleanMergeOutcome(ma_data, mapd_data, y)
    /\ UNCHANGED <<fs, result, ma_data, mapd_data>>

(***************************************************************************)
(* Specification of the merger: any two landscape tables within the        *)
(* bounds, or one table with the columns of both handed in twice.          *)
(***************************************************************************)
Years == {2015, 2016}

AbsentFill == [c \in fill_cols |-> NaN]
PopulatedFill ==
    [premium_partc |-> Some(Num(30)), premium_partd_basic |-> Some(Num(5)),
     premium_partd_supp |-> Some(Num(6)), premium_partd_total |-> Some(Num(11)),
     partd_deductible |-> Some(Num(100))]

LandscapeRows(contractids, planids, premiums, fills) ==
    { [contractid |-> Some(c), planid |-> p, state |-> Some("AL"),
       county |-> Some("Autauga"), premium |-> v] @@ f :
      c \in contractids, p \in planids, v \in premiums, f \in fills }

MaRows ==
    LandscapeRows({"H1234", "H5678"}, {Some(Num(1)), NaN},
                  {NaN, Some(Num(10))}, {AbsentFill})

MapdRows ==
    LandscapeRows({"H1234"},
                  {Some([text |-> <<"1">>]), Some([text |-> <<"a", "b", "c">>])},
                  {NaN}, {AbsentFill, PopulatedFill})

BothRows ==
    LandscapeRows({"H1234", "H5678"}, {Some(Num(1)), NaN},
                  {NaN, Some(Num(10))}, {AbsentFill, PopulatedFill})

InitMerge ==
    /\ \/ /\ ma_data \in SeqUpTo(MaRows, MaxMaRows)
          /\ mapd_data \in SeqUpTo(MapdRows, MaxMapdRows)
       \/ /\ ma_data \in SeqUpTo(BothRows, MaxMaRows)
          /\ mapd_data = ma_data
    /\ plan_premiums = NoCall
    /\ fs = << >>
    /\ result = NoCall

NextMerge == \E y \in Years : mapd_clean_merge(y)

SpecMerge == InitMerge /\ [][NextMerge]_vars

(***************************************************************************)
(* Properties of the plan/enrollment loader (SpecLoad).                    *)
(***************************************************************************)
RECURSIVE SumOver(_, _)
SumOver(S, f) ==
    IF S = {} THEN 0
    ELSE LET x == CHOOSE x \in S : TRUE
         IN  f[x] + SumOver(S \ {x}, f)

LoadReturned == result.op = "load_month" /\ result.status = "ok"
LoadRaised == result.op = "load_month" /\ result.status = "error"

\* the typed tables load_month read in the call recorded in `result`
ContractTable == read_contract(fs[ContractPath(result.m, result.y)])
EnrollTable == read_enroll(fs[EnrollPath(result.m, result.y)])

ContractKeys == { KeyOf(r, KeyCols) : r \in Range(ContractTable) }
EnrollCount(k) ==
    Cardinality({ j \in 1..Len(EnrollTable) : KeyOf(EnrollTable[j], KeyCols) = k })

\* C1 as stated: the number of rows load_month returns equals the number of
\* distinct (contractid, planid) pairs of the contract table, whatever the
\* number of enrollment rows per pair (stated here for the contract tables
\* whose plan ids are all present).
C1_RowCountEqualsDedupCount ==
    (LoadReturned /\ \A k \in ContractKeys : k.planid # <<>>)
        => Len(result.rows) = Cardinality(ContractKeys)

\* C1 amended: load_month returns, for each distinct (contractid, planid) of the
\* contract table, one row when no enrollment row has that key and otherwise
\* as many rows as enrollment rows have it: no contract row is dropped, and a
\* contract row is repeated exactly when several enrollment rows match it.
C1_RowCountIsSumOfMatches ==
    LoadReturned =>
        /\ Len(result.rows) =
               SumOver(ContractKeys,
                       [k \in ContractKeys |->
                           IF EnrollCount(k) = 0 THEN 1 ELSE EnrollCount(k)])
        /\ \A k \in ContractKeys :
               Cardinality({ i \in 1..Len(result.rows) :
                               KeyOf(result.rows[i], KeyCols) = k })
                   = (IF EnrollCount(k) = 0 THEN 1 ELSE EnrollCount(k))
        /\ ((\A k \in ContractKeys : EnrollCount(k) <= 1)
               => Len(result.rows) = Cardinality(ContractKeys))

\* a call that returned where one contract/plan pair has several enrollment
\* rows and another has none
C1_Witness ==
    /\ LoadReturned
    /\ \E k \in ContractKeys : EnrollCount(k) >= 2
    /\ \E k \in ContractKeys : EnrollCount(k) = 0

ExpectedEnrollPath ==
    [dir |-> "/home/gdanzil/econ470/a0/work/ma-data/ma/enrollment/Extracted Data",
     stem |-> "CPSC_Enrollment_Info", y |-> result.y, m |-> result.m]
ExpectedContractPath ==
    [dir |-> "/home/gdanzil/econ470/a0/work/ma-data/ma/enrollment/Extracted Data",
     stem |-> "CPSC_Contract_Info", y |-> result.y, m |-> result.m]

EnrollMissing == ExpectedEnrollPath \notin DOMAIN fs
ContractMissing == ExpectedContractPath \notin DOMAIN fs

\* raised by load_month itself, before any file was handed to a reader
RaisedBeforeAnyRead ==
    /\ result.status = "error"
    /\ result.error.type = "FileNotFoundError"
    /\ result.error.by = "load_month"
    /\ result.reads = <<>>

\* C2 as stated: whenever the enrollment file of the period is absent,
\* load_month ends in the missing-file error naming the enrollment path
\* (whether or not the contract file exists), raised before any read.
C2_EnrollMissingNamesEnrollPath ==
    (result.op = "load_month" /\ EnrollMissing) =>
        /\ RaisedBeforeAnyRead
        /\ result.error.msg = "Missing enrollment file"
        /\ result.error.path = ExpectedEnrollPath

\* C2 amended: when the enrollment file is absent and the contract file
\* exists, load_month ends in the missing-file error naming the enrollment
\* path; when the contract file is absent the error names the contract path
\* (it is checked first), also when the enrollment file is absent too; in
\* both cases the error is raised before any file is read.
C2_MissingFileRaisedBeforeRead ==
    result.op = "load_month" =>
        /\ (EnrollMissing /\ ~ContractMissing) =>
               /\ RaisedBeforeAnyRead
               /\ result.error.msg = "Missing enrollment file"
               /\ result.error.path = ExpectedEnrollPath
        /\ ContractMissing =>
               /\ RaisedBeforeAnyRead
               /\ result.error.msg = "Missing contract file"
               /\ result.error.path = ExpectedContractPath
        /\ (~EnrollMissing /\ ~ContractMissing) =>
               /\ result.status = "ok"
               /\ result.reads = <<ExpectedContractPath, ExpectedEnrollPath>>

\* a call for a period whose contract file exists and whose enrollment file
\* does not
C2_Witness ==
    /\ LoadRaised
    /\ EnrollMissing
    /\ ~ContractMissing
    /\ Len(fs[ExpectedContractPath]) > 0

ExpectedMonth(m) ==
    CASE m = <<"0", "1">> -> 1
      [] m = <<"1", "2">> -> 12

\* the contract/plan pairs of the call that no enrollment row matches
UnmatchedKeys == { k \in ContractKeys : EnrollCount(k) = 0 }

\* C4: every row load_month(m, y) returns has month = int(m) and year = y, and
\* every contract/plan pair without an enrollment row is in the output with
\* its enrollment fields absent.
C4_RowsStampedWithPeriod ==
    LoadReturned =>
        /\ \A i \in 1..Len(result.rows) :
               /\ result.rows[i].month = ExpectedMonth(result.m)
               /\ result.rows[i].year = result.y
        /\ \A k \in UnmatchedKeys :
               \E i \in 1..Len(result.rows) :
                   /\ KeyOf(result.rows[i], KeyCols) = k
                   /\ isna(result.rows[i].enrollment)
                   /\ isna(result.rows[i].county)
                   /\ result.rows[i].month = ExpectedMonth(result.m)
                   /\ result.rows[i].year = result.y

\* a call for month "12" that returned a row of an unmatched pair beside a
\* matched one
C4_Witness ==
    /\ LoadReturned
    /\ result.m = <<"1", "2">>
    /\ UnmatchedKeys # {}
    /\ \E i \in 1..Len(result.rows) : notna(result.rows[i].enrollment)

ContractCols == {"contractid", "planid", "plan_name"}

\* position of the first row of df with the key of df[i]
FirstWithKey(df, i) ==
    CHOOSE j \in 1..i :
        /\ KeyOf(df[j], KeyCols) = KeyOf(df[i], KeyCols)
        /\ \A h \in 1..(j - 1) : KeyOf(df[h], KeyCols) # KeyOf(df[i], KeyCols)

\* the positions of df whose row is the first of its key, in increasing order
FirstPositions(df) == { i \in 1..Len(df) : FirstWithKey(df, i) = i }

\* C9: the deduplication load_month applies to the contract table is
\* idempotent, and its output holds exactly one row per distinct
\* (contractid, planid): the earliest input row with that key, in the input's
\* relative order; these are the contract rows load_month joins.
C9_DedupKeepsFirstIdempotent ==
    LoadReturned =>
        LET T == ContractTable
            D == drop_duplicates(T, KeyCols)
            P == FirstPositions(T)
        IN  /\ drop_duplicates(D, KeyCols) = D
            /\ Len(D) = Cardinality(ContractKeys)
            /\ \A a, b \in 1..Len(D) :
                   a # b => KeyOf(D[a], KeyCols) # KeyOf(D[b], KeyCols)
            /\ Len(D) = Cardinality(P)
            /\ \A a \in 1..Len(D) :
                   \E i \in P :
                       /\ D[a] = T[i]
                       /\ Cardinality({ j \in P : j < i }) = a - 1
            /\ { KeyOf(r, ContractCols) : r \in Range(result.rows) } = Range(D)

\* a call whose contract file has two rows with one key and different names
C9_Witness ==
    /\ LoadReturned
    /\ \E i, j \in 1..Len(ContractTable) :
           /\ i < j
           /\ KeyOf(ContractTable[i], KeyCols) = KeyOf(ContractTable[j], KeyCols)
           /\ ContractTable[i].plan_name # ContractTable[j].plan_name

(***************************************************************************)
(* Properties of the service-area and penetration loaders.                 *)
(***************************************************************************)
SaReturned == result.op = "load_month_sa" /\ result.status = "ok"
SaRaw == fs[[dir |-> "../../ma-data/ma/service-area/Extracted Data",
             stem |-> "MA_Cnty_SA", y |-> result.y, m |-> result.m]]

\* C8: read_service_area maps the partial field case-sensitively: "TRUE" is
\* true, "FALSE" is false, any other literal (also a missing-value sentinel)
\* is absent, and no literal makes the reader raise.
C8_PartialMappedCaseSensitively ==
    /\ (result.op = "load_month_sa" /\ ServiceAreaPath(result.m, result.y) \in DOMAIN fs)
           => result.status = "ok"
    /\ SaReturned =>
           /\ Len(result.rows) = Len(SaRaw)
           /\ \A i \in 1..Len(SaRaw) :
                  result.rows[i].partial =
                      (CASE SaRaw[i].partial = <<"T", "R", "U", "E">> -> <<TRUE>>
                         [] SaRaw[i].partial = <<"F", "A", "L", "S", "E">> -> <<FALSE>>
                         [] OTHER -> <<>>)

\* a file read with the literals "true" and "TRUE" in it
C8_Witness ==
    /\ SaReturned
    /\ \E i, j \in 1..Len(SaRaw) :
           /\ SaRaw[i].partial = <<"t", "r", "u", "e">>
           /\ SaRaw[j].partial = <<"T", "R", "U", "E">>
           /\ result.rows[i].partial = <<>>
           /\ result.rows[j].partial = <<TRUE>>

PenReturned == result.op = "load_month_pen" /\ result.status = "ok"
PenRaw == fs[[dir |-> "../../ma-data/ma/penetration/Extracted Data",
              stem |-> "State_County_Penetration_MA", y |-> result.y, m |-> result.m]]

\* the text without its ',' and '%' characters
WithoutCommaPercent(t) == SelectSeq(t, LAMBDA ch : ch \notin {",", "%"})

\* the texts the claim names, with the value each is to yield
IsSentinel(t) == t \in { <<>>, <<"N", "A">>, <<"*">>, <<"-">>, <<"-", "-">> }

\* C7: in read_penetration, for eligibles, enrolled and penetration: ',' and
\* '%' are stripped before coercion, so "1,234%" and "1234" both yield 1234
\* and two texts that agree after stripping yield the same value; "n/a", a
\* text unparseable after stripping and each sentinel yield absent; a numeral
\* yields a number; no field value makes the reader raise.
C7_NumericTextStrippedThenCoerced ==
    /\ (result.op = "load_month_pen"
            /\ PenetrationPath(result.m, result.y) \in DOMAIN fs)
           => result.status = "ok"
    /\ PenReturned =>
           /\ Len(result.rows) = Len(PenRaw)
           /\ \A i \in 1..Len(PenRaw) : \A c \in {"eligibles", "enrolled", "penetration"} :
                  LET t == PenRaw[i][c]
                      v == result.rows[i][c]
                  IN  /\ t \in { <<"1", ",", "2", "3", "4", "%">>, <<"1", "2", "3", "4">> }
                             => v = << [num |-> 1234, scale |-> 0] >>
                      /\ t = <<"1", "2", ".", "5", "%">>
                             => v = << [num |-> 125, scale |-> 1] >>
                      /\ IsSentinel(t) => v = <<>>
                      /\ t \in { <<"n", "/", "a">>, <<"1", ".", "2", ".", "3">>, <<"%">> }
                             => v = <<>>
                      /\ (~IsSentinel(t) /\ IsNumeral(WithoutCommaPercent(t)))
                             => (v # <<>> /\ v[1].num \in Int /\ v[1].scale \in Nat)
                      /\ \A j \in 1..Len(PenRaw) : \A d \in {"eligibles", "enrolled", "penetration"} :
                             (/\ WithoutCommaPercent(PenRaw[j][d]) = WithoutCommaPercent(t)
                              /\ ~IsSentinel(t)
                              /\ ~IsSentinel(PenRaw[j][d]))
                                 => result.rows[j][d] = v

\* a file read with the fields "1,234%", "1234" and "n/a" in it
C7_Witness ==
    /\ PenReturned
    /\ \E i, j, k \in 1..Len(PenRaw) : \E c, d, e \in {"eligibles", "enrolled", "penetration"} :
           /\ PenRaw[i][c] = <<"1", ",", "2", "3", "4", "%">>
           /\ PenRaw[j][d] = <<"1", "2", "3", "4">>
           /\ result.rows[i][c] = result.rows[j][d]
           /\ result.rows[i][c] # <<>>
           /\ PenRaw[k][e] = <<"n", "/", "a">>
           /\ result.rows[k][e] = <<>>

LoaderOfOneFile == result.op \in {"load_month_sa", "load_month_pen"}
ExpectedFile ==
    IF result.op = "load_month_sa"
    THEN [dir |-> "../../ma-data/ma/service-area/Extracted Data",
          stem |-> "MA_Cnty_SA", y |-> result.y, m |-> result.m]
    ELSE [dir |-> "../../ma-data/ma/penetration/Extracted Data",
          stem |-> "State_County_Penetration_MA", y |-> result.y, m |-> result.m]

\* C3: when the file of the period is absent, load_month_sa and
\* load_month_pen, like load_month, themselves raise the missing-file error
\* naming the path before any parse attempt of their reader.
C3_LoadersCheckBeforeParsing ==
    (/\ result.op \in {"load_month", "load_month_sa", "load_month_pen"}
     /\ result.status = "error") =>
        /\ result.error.type = "FileNotFoundError"
        /\ result.error.by = result.op
        /\ result.reads = <<>>
        /\ LoaderOfOneFile => result.error.path = ExpectedFile

(***************************************************************************)
(* Properties of the merger (SpecMerge).                                   *)
(***************************************************************************)
MergeDone == plan_premiums.op = "mapd_clean_merge"
Out == plan_premiums.rows
OutKey(i) == KeyOf(Out[i], MergeKeyCols)

\* the plan id of an MA-PD row as a number: a number is itself, a numeral its
\* value, any other text absent
CoercedPlanid(cell) ==
    IF cell = <<>> THEN <<>>
    ELSE IF "text" \notin DOMAIN cell[1] THEN cell
    ELSE IF IsNumeral(cell[1].text) THEN << NumeralValue(cell[1].text) >>
    ELSE <<>>

MaKeyAt(i) == KeyOf(ma_data[i], MergeKeyCols)
MapdKeyAt(i) ==
    [KeyOf(mapd_data[i], MergeKeyCols) EXCEPT !.planid = CoercedPlanid(@)]

MaKeys == { MaKeyAt(i) : i \in 1..Len(ma_data) }
MapdKeys == { MapdKeyAt(i) : i \in 1..Len(mapd_data) }

\* the first row of the input with key k; a stable sort keeps it first in
\* its group
FirstMa(k) ==
    ma_data[CHOOSE i \in 1..Len(ma_data) :
                /\ MaKeyAt(i) = k
                /\ \A j \in 1..(i - 1) : MaKeyAt(j) # k]
FirstMapd(k) ==
    mapd_data[CHOOSE i \in 1..Len(mapd_data) :
                  /\ MapdKeyAt(i) = k
                  /\ \A j \in 1..(i - 1) : MapdKeyAt(j) # k]

KeyHasAbsent(k) == \E c \in DOMAIN k : k[c] = <<>>

\* the keys of the MA table, all components present, whose first row has no
\* premium while a later row of the key has one
MaKeysFilledLater ==
    { k \in MaKeys :
        /\ ~KeyHasAbsent(k)
        /\ FirstMa(k).premium = <<>>
        /\ \E i \in 1..Len(ma_data) : MaKeyAt(i) = k /\ ma_data[i].premium # <<>> }

\* C5: when a row of the MA table without a premium is followed in sort order
\* by a row of the same key with one, the single output row of that key
\* carries the populated premium.
C5_FirstRowAcquiresLaterPremium ==
    MergeDone =>
        \A k \in MaKeysFilledLater :
            \A i \in 1..Len(Out) : OutKey(i) = k => Out[i].premium # <<>>

\* C6 as stated: every distinct (contractid, planid, state, county) of either
\* input, as it stands in the input, is the key of exactly one output row (a
\* plan id written as a numeral being the same id as its number).
C6_EveryInputKeyOnceInOutput ==
    MergeDone =>
        /\ \A k \in MaKeys :
               Cardinality({ i \in 1..Len(Out) : OutKey(i) = k }) = 1
        /\ \A r \in 1..Len(mapd_data) :
               /\ (mapd_data[r].planid # <<>> /\ "text" \in DOMAIN mapd_data[r].planid[1])
                      => IsNumeral(mapd_data[r].planid[1].text)
               /\ Cardinality({ i \in 1..Len(Out) : OutKey(i) = MapdKeyAt(r) }) = 1

\* C6 amended: with the MA-PD plan id taken after numeric coercion (an id that
\* is not numeric becomes the absent id, and absent ids are one value), every
\* distinct (contractid, planid, state, county) of either input is the key of
\* exactly one output row and the output has no other row; a key of one
\* source only has the other source's fields absent.
C6_EveryCoercedKeyOnceInOutput ==
    MergeDone =>
        /\ \A k \in MaKeys \cup MapdKeys :
               Cardinality({ i \in 1..Len(Out) : OutKey(i) = k }) = 1
        /\ Len(Out) = Cardinality(MaKeys \cup MapdKeys)
        /\ \A i \in 1..Len(Out) :
               /\ OutKey(i) \notin MaKeys => Out[i].premium = <<>>
               /\ OutKey(i) \notin MapdKeys =>
                      \A c \in fill_cols : Out[i][c] = <<>>
               /\ Out[i].year = plan_premiums.y

\* a merge of tables with a key in both sources, a key in the MA source only
\* and an MA-PD row whose plan id is not numeric
C6_Witness ==
    /\ MergeDone
    /\ MaKeys \cap MapdKeys # {}
    /\ MaKeys \ MapdKeys # {}
    /\ \E r \in 1..Len(mapd_data) :
           /\ mapd_data[r].planid # <<>>
           /\ "text" \in DOMAIN mapd_data[r].planid[1]
           /\ ~IsNumeral(mapd_data[r].planid[1].text)
           /\ MapdKeyAt(r) \notin MaKeys

====
